---- MODULE Spec2Model ----
(***************************************************************************)
(* Model of the id-partition-simulator (src/main.go): the partition hash   *)
(* and the ProcessCSV accounting loop.                                     *)
(*                                                                         *)
(* TLC integers are 32-bit, so Go's fixed-width integers are kept as       *)
(* little-endian sequences of 16-bit limbs: a uint32 is <<lo, hi>>, an     *)
(* int64 is <<l0, l1, l2, l3>> in two's complement.  All arithmetic wraps  *)
(* exactly as the Go operators do.                                         *)
(***************************************************************************)
EXTENDS Integers, Sequences, FiniteSets, TLC

\* ------------------------------------------------------------ bounds
MaxLen == 2
MaxPartitions == 3
MaxIterations == 2
MaxHashKey == 63

\* ------------------------------------------------------------ limbs
Base == 2^16
Half == 2^15

RECURSIVE XorBits(_, _, _)
XorBits(a, b, n) ==
    IF n = 0 THEN 0
    ELSE (((a % 2) + (b % 2)) % 2) + 2 * XorBits(a \div 2, b \div 2, n - 1)

RECURSIVE OrBits(_, _, _)
OrBits(a, b, n) ==
    IF n = 0 THEN 0
    ELSE (IF (a % 2) + (b % 2) > 0 THEN 1 ELSE 0) + 2 * OrBits(a \div 2, b \div 2, n - 1)

\* uint32 operators of Go: + - ^ | << >> on <<lo, hi>>
Add32(x, y) ==
    LET lo == x[1] + y[1]
        hi == x[2] + y[2] + lo \div Base
    IN  <<lo % Base, hi % Base>>

Sub32(x, y) ==
    LET lo == x[1] - y[1]
        borrow == IF lo < 0 THEN 1 ELSE 0
        hi == x[2] - y[2] - borrow
    IN  <<lo % Base, hi % Base>>

Xor32(x, y) == <<XorBits(x[1], y[1], 16), XorBits(x[2], y[2], 16)>>

Or32(x, y) == <<OrBits(x[1], y[1], 16), OrBits(x[2], y[2], 16)>>

Shl32(x, k) ==
    IF k < 16
    THEN <<(x[1] % 2^(16 - k)) * 2^k,
           (x[2] % 2^(16 - k)) * 2^k + x[1] \div 2^(16 - k)>>
    ELSE <<0, (x[1] % 2^(32 - k)) * 2^(k - 16)>>

Shr32(x, k) ==
    IF k < 16
    THEN <<x[1] \div 2^k + (x[2] % 2^k) * 2^(16 - k), x[2] \div 2^k>>
    ELSE <<x[2] \div 2^(k - 16), 0>>

\* x % n for a small positive n (uint32 remainder)
Mod32(x, n) == ((x[2] % n) * (Base % n) + (x[1] % n)) % n

\* ------------------------------------------------------------ hash
\* a plausible slip: a plain shift, the high bits are not rotated in
rotateLeft_ShiftOnly(x, k) == Shl32(x, k)

rotateLeft(x, k) == Or32(Shl32(x, k), Shr32(x, 32 - k))

\* uint32(0x9e3779b9 + 4 + 3923095) = 0x9e735654
hashSeed == <<22100, 40563>>

hash(k) ==
    LET a0 == Add32(hashSeed, k)
        b0 == hashSeed
        c0 == hashSeed
        c1 == Sub32(Xor32(c0, b0), rotateLeft(b0, 14))
        a1 == Sub32(Xor32(a0, c1), rotateLeft(c1, 11))
        b1 == Sub32(Xor32(b0, a1), rotateLeft(a1, 25))
        c2 == Sub32(Xor32(c1, b1), rotateLeft(b1, 16))
        a2 == Sub32(Xor32(a1, c2), rotateLeft(c2, 4))
        b2 == Sub32(Xor32(b1, a2), rotateLeft(a2, 14))
        c3 == Sub32(Xor32(c2, b2), rotateLeft(b2, 24))
    IN  c3

\* ------------------------------------------------------------ int64
\* Go int64 operators + - > on <<l0, l1, l2, l3>>, wrapping modulo 2^64
Add64(x, y) ==
    LET s1 == x[1] + y[1]
        s2 == x[2] + y[2] + s1 \div Base
        s3 == x[3] + y[3] + s2 \div Base
        s4 == x[4] + y[4] + s3 \div Base
    IN  <<s1 % Base, s2 % Base, s3 % Base, s4 % Base>>

Sub64(x, y) ==
    LET d1 == x[1] - y[1]
        d2 == x[2] - y[2] - (IF d1 < 0 THEN 1 ELSE 0)
        d3 == x[3] - y[3] - (IF d2 < 0 THEN 1 ELSE 0)
        d4 == x[4] - y[4] - (IF d3 < 0 THEN 1 ELSE 0)
    IN  <<d1 % Base, d2 % Base, d3 % Base, d4 % Base>>

\* unsigned comparison of two 4-limb words
ULess64(x, y) ==
    \E i \in 1..4 : x[i] < y[i] /\ \A j \in (i + 1)..4 : x[j] = y[j]

\* signed comparison: flip the sign bit, then compare unsigned
Bias64(x) == <<x[1], x[2], x[3], (x[4] + Half) % Base>>

Gt64(x, y) == ULess64(Bias64(y), Bias64(x))

Le64(x, y) == ~Gt64(x, y)

I64(n) == IF n >= 0 THEN <<n, 0, 0, 0>> ELSE Sub64(<<0, 0, 0, 0>>, <<-n, 0, 0, 0>>)

\* math.MaxInt64
MaxInt64 == <<Base - 1, Base - 1, Base - 1, Half - 1>>

\* ------------------------------------------------------------ strconv.ParseInt
\* A CSV field is a sequence of one-character strings.
Digits == <<"0", "1", "2", "3", "4", "5", "6", "7", "8", "9">>

IsDigit(c) == \E i \in 1..10 : Digits[i] = c

DigitVal(c) == (CHOOSE i \in 1..10 : Digits[i] = c) - 1

\* m * 10 + d on an unsigned 64-bit magnitude; over is set when it leaves 64 bits
MulAdd10(acc, d) ==
    LET m  == acc.mag
        t1 == m[1] * 10 + d
        t2 == m[2] * 10 + t1 \div Base
        t3 == m[3] * 10 + t2 \div Base
        t4 == m[4] * 10 + t3 \div Base
    IN  [mag  |-> <<t1 % Base, t2 % Base, t3 % Base, t4 % Base>>,
         over |-> acc.over \/ t4 \div Base > 0]

RECURSIVE ParseDigits(_, _)
ParseDigits(s, acc) ==
    IF s = <<>> THEN acc ELSE ParseDigits(Tail(s), MulAdd10(acc, DigitVal(Head(s))))

\* 1 << (bitSize - 1) as an unsigned 64-bit word
Cutoff(bitSize) ==
    [i \in 1..4 |-> IF i = ((bitSize - 1) \div 16) + 1 THEN 2^((bitSize - 1) % 16) ELSE 0]

\* strconv.ParseInt(s, 10, bitSize): err is TRUE for a syntax or a range error
ParseInt(s, bitSize) ==
    IF s = <<>> THEN [err |-> TRUE, n |-> I64(0)]
    ELSE
      LET neg  == Head(s) = "-"
          body == IF Head(s) \in {"+", "-"} THEN Tail(s) ELSE s
      IN  IF body = <<>> \/ \E i \in 1..Len(body) : ~IsDigit(body[i])
          THEN [err |-> TRUE, n |-> I64(0)]
          ELSE
            LET un == ParseDigits(body, [mag |-> I64(0), over |-> FALSE])
                cutoff == Cutoff(bitSize)
            IN  IF \/ un.over
                   \/ ~neg /\ ~ULess64(un.mag, cutoff)
                   \/ neg /\ ULess64(cutoff, un.mag)
                THEN [err |-> TRUE, n |-> I64(0)]
                ELSE [err |-> FALSE,
                      n |-> IF neg THEN Sub64(I64(0), un.mag) ELSE un.mag]

\* uint32(i) of an int64: the low 32 bits
Uint32(i) == <<i[1], i[2]>>

\* ------------------------------------------------------------ inputs
\* CSV rows: record[0] is the DocumentID text, record[1] the count text
Row(k, c) == [key |-> k, count |-> c]

Rows ==
    { Row(<<"1">>, <<"4">>),
      Row(<<"3">>, <<"6">>),
      Row(<<"3", "0", "0", "0", "0", "0", "0", "0", "0", "0">>, <<"4">>),
      Row(<<"-", "1">>, <<"4">>),
      Row(<<"1">>, <<"x">>),
      Row(<<"1">>, <<"9", "2", "2", "3", "3", "7", "2", "0", "3", "6",
                     "8", "5", "4", "7", "7", "5", "8", "0", "7">>) }

\* fmt.Sprintf("%d", i) for the ids the test writes
DecimalText(i) == IF i < 10 THEN <<Digits[i + 1]>> ELSE <<"1", Digits[i - 9]>>

\* createTestCSV(t, 10, 11): DocumentIDs 1..10, each with count 11
TestStream == [i \in 1..10 |-> Row(DecimalText(i), <<"1", "1">>)]

Streams == UNION {[1..n -> Rows] : n \in 0..MaxLen} \cup {TestStream}

Configs ==
    [partitions : 1..MaxPartitions,
     max        : {I64(0), I64(10)},
     min        : {I64(0), I64(1)},
     iterations : 1..MaxIterations,
     outlier    : {I64(5), MaxInt64}]

\* ------------------------------------------------------------ state
VARIABLES
    config,            \* Config (partitions, max, min, iterations, outlier)
    stream,            \* the data rows of config.file, header excluded
    partitionList,     \* [0..partitions-1 -> Partition]
    partitionTrackers, \* progress value published per partition
    result,            \* Result (totalDocuments, totalIDs, partitionCounts)
    erroredPartitions,
    pinnedMessages,    \* the outlier notices, in order
    loggedOutliers,    \* set of DocumentIDs already reported
    iteration,
    pos,               \* rows the csv reader has returned in this iteration
    pc,                \* "seek" | "read" | "done"
    err,               \* the error ProcessCSV returns
    log,               \* history: what happened to each row consumed
    afterPass,         \* history: result at the end of each iteration
    hashKey,           \* the argument of a direct call of hash
    hashOut            \* its return value, <<>> before the call

vars == <<hashKey, hashOut, config, stream, partitionList, partitionTrackers, result,
          erroredPartitions, pinnedMessages, loggedOutliers, iteration, pos,
          pc, err, log, afterPass>>

Indexes == 0..(config.partitions - 1)

NoError == [msg |-> "nil", n |-> 0]

\* lines 105-136: the locals of ProcessCSV before the first iteration
EngineStart ==
    /\ partitionList = [i \in Indexes |->
                          [current |-> config.min, max |-> config.max, errored |-> FALSE]]
    /\ partitionTrackers = [i \in Indexes |-> I64(0)]
    /\ result = [totalDocuments |-> 0, totalIDs |-> I64(0),
                 partitionCounts |-> [i \in Indexes |-> I64(0)]]
    /\ erroredPartitions = 0
    /\ pinnedMessages = <<>>
    /\ loggedOutliers = {}
    /\ iteration = 1
    /\ pos = 0
    /\ pc = "seek"
    /\ err = NoError
    /\ log = <<>>
    /\ afterPass = <<>>

NoHash == <<>>

Init ==
    /\ config \in Configs
    /\ stream \in Streams
    /\ EngineStart
    /\ hashKey = <<0, 0>>
    /\ hashOut = NoHash

\* ------------------------------------------------------------ the record being read
record == stream[pos + 1]

\* The conversions of a row depend on the row alone; they are tabulated per
\* row so that each is computed once.
AllRows == Rows \cup {TestStream[i] : i \in 1..Len(TestStream)}

\* line 172: strconv.ParseInt(record[0], 10, 32)
KeyParses == [r \in AllRows |-> ParseInt(r.key, 32)]

\* line 179: strconv.ParseInt(record[1], 10, 64)
CountParses == [r \in AllRows |-> ParseInt(r.count, 64)]

\* line 193: hash(documentID), with documentID := uint32(i) of line 177
Hashes == [r \in AllRows |-> hash(Uint32(KeyParses[r].n))]

keyParse == KeyParses[record]

documentID == Uint32(keyParse.n)

countParse == CountParses[record]

count == countParse.n

\* a plausible slip: the key itself, not its hash, is reduced
partitionIndex_NoHash == Mod32(documentID, config.partitions)

\* line 193: hash(documentID) % uint32(config.partitions)
partitionIndex == Mod32(Hashes[record], config.partitions)

partition == partitionList[partitionIndex]

newValue == Add64(partition.current, count)

\* line 196: the record is skipped as an outlier
SkipsOutlier == Gt64(count, config.outlier) /\ documentID \notin loggedOutliers

\* a plausible slip: the weight alone is compared with the ceiling
ExceedsMax_WeightOnly == Gt64(count, partition.max)

\* line 206: the capacity check
ExceedsMax == Gt64(newValue, partition.max)

\* a plausible slip: the failing partition is clamped to its ceiling
ErroredPartition_Clamped(p) == [p EXCEPT !.errored = TRUE, !.current = p.max]

\* a plausible slip: the flag is not set
ErroredPartition_NotMarked(p) == p

\* line 209
ErroredPartition(p) == [p EXCEPT !.errored = TRUE]

\* a plausible slip: the break is never taken
LastPartitionFailed_Never(e, p) == e > p

\* line 211: erroredPartitions == config.partitions, after the increment
LastPartitionFailed(e, p) == e = p

\* a plausible slip: the key is not remembered
RegisterOutlier_Forgets(logged, k) == logged

\* line 198
RegisterOutlier(logged, k) == logged \cup {k}

\* a plausible slip: Seek(0, io.SeekCurrent), the file is not rewound
SeekStart_Current == pos

\* line 145: config.file.Seek(0, 0)
SeekStart == 0

Parsed == ~keyParse.err /\ ~countParse.err

\* a plausible slip: the weight is not added to totalIDs
Counted_NoIDs == [result EXCEPT !.totalDocuments = @ + 1]

\* lines 185-186
Counted ==
    [result EXCEPT !.totalDocuments = @ + 1, !.totalIDs = Add64(@, count)]

Event(outcome) ==
    [iteration |-> iteration, row |-> record, outcome |-> outcome]

Reading == pc = "read" /\ pos < Len(stream)

\* ------------------------------------------------------------ actions
\* lines 138-155: reposition the file and skip the header
BeginIteration ==
    /\ pc = "seek"
    /\ iteration <= config.iterations
    /\ pc' = "read"
    /\ pos' = SeekStart
    /\ UNCHANGED <<hashKey, hashOut, config, stream, partitionList, partitionTrackers, result,
                   erroredPartitions, pinnedMessages, loggedOutliers, iteration,
                   err, log, afterPass>>

\* lines 158-161: io.EOF ends the iteration
EndOfFile ==
    /\ pc = "read"
    /\ pos = Len(stream)
    /\ iteration' = iteration + 1
    /\ pc' = "seek"
    /\ afterPass' = Append(afterPass, result)
    /\ UNCHANGED <<hashKey, hashOut, config, stream, partitionList, partitionTrackers, result,
                   erroredPartitions, pinnedMessages, loggedOutliers, pos, err, log>>

\* lines 172-176: DocumentID does not parse
KeyParseError ==
    /\ Reading
    /\ keyParse.err
    /\ pos' = pos + 1
    /\ log' = Append(log, Event("keyError"))
    /\ UNCHANGED <<hashKey, hashOut, config, stream, partitionList, partitionTrackers, result,
                   erroredPartitions, pinnedMessages, loggedOutliers, iteration,
                   pc, err, afterPass>>

\* a plausible slip: the record is counted before its count is parsed
CountParseError_Counts ==
    /\ Reading
    /\ ~keyParse.err
    /\ countParse.err
    /\ result' = [result EXCEPT !.totalDocuments = @ + 1]
    /\ pos' = pos + 1
    /\ log' = Append(log, Event("countError"))
    /\ UNCHANGED <<hashKey, hashOut, config, stream, partitionList, partitionTrackers,
                   erroredPartitions, pinnedMessages, loggedOutliers, iteration,
                   pc, err, afterPass>>

\* lines 179-183: count does not parse
CountParseError ==
    /\ Reading
    /\ ~keyParse.err
    /\ countParse.err
    /\ pos' = pos + 1
    /\ log' = Append(log, Event("countError"))
    /\ UNCHANGED <<hashKey, hashOut, config, stream, partitionList, partitionTrackers, result,
                   erroredPartitions, pinnedMessages, loggedOutliers, iteration,
                   pc, err, afterPass>>

\* lines 185-200: counted, then skipped as a not yet reported outlier
SkipOutlier ==
    /\ Reading
    /\ Parsed
    /\ SkipsOutlier
    /\ result' = Counted
    /\ pinnedMessages' = Append(pinnedMessages,
                                [documentID |-> documentID, count |-> count,
                                 partition |-> partitionIndex])
    /\ loggedOutliers' = RegisterOutlier(loggedOutliers, documentID)
    /\ pos' = pos + 1
    /\ log' = Append(log, Event("outlier"))
    /\ UNCHANGED <<hashKey, hashOut, config, stream, partitionList, partitionTrackers,
                   erroredPartitions, iteration, pc, err, afterPass>>

\* a plausible slip: the global halt is tested for every record, so a later
\* iteration stops at its first record once every partition is errored
DropErrored_Halts ==
    /\ Reading
    /\ Parsed
    /\ ~SkipsOutlier
    /\ partition.errored
    /\ result' = Counted
    /\ pos' = pos + 1
    /\ log' = Append(log, Event("dropped"))
    /\ IF erroredPartitions = config.partitions
       THEN /\ iteration' = iteration + 1
            /\ pc' = "seek"
            /\ afterPass' = Append(afterPass, result')
       ELSE UNCHANGED <<iteration, pc, afterPass>>
    /\ UNCHANGED <<hashKey, hashOut, config, stream, partitionList,
                   partitionTrackers, erroredPartitions, pinnedMessages,
                   loggedOutliers, err>>

\* lines 185-204: counted, the partition is already errored
DropErrored ==
    /\ Reading
    /\ Parsed
    /\ ~SkipsOutlier
    /\ partition.errored
    /\ result' = Counted
    /\ pos' = pos + 1
    /\ log' = Append(log, Event("dropped"))
    /\ UNCHANGED <<hashKey, hashOut, config, stream, partitionList, partitionTrackers,
                   erroredPartitions, pinnedMessages, loggedOutliers, iteration,
                   pc, err, afterPass>>

\* lines 185-213: counted, the capacity check fails; the last partition to
\* fail ends the iteration (break)
Overflow ==
    /\ Reading
    /\ Parsed
    /\ ~SkipsOutlier
    /\ ~partition.errored
    /\ ExceedsMax
    /\ result' = Counted
    /\ partitionTrackers' =
         [partitionTrackers EXCEPT ![partitionIndex] =
             Add64(@, Sub64(partition.max, partition.current))]
    /\ partitionList' = [partitionList EXCEPT ![partitionIndex] = ErroredPartition(@)]
    /\ erroredPartitions' = erroredPartitions + 1
    /\ pos' = pos + 1
    /\ log' = Append(log, Event("overflow"))
    /\ IF LastPartitionFailed(erroredPartitions + 1, config.partitions)
       THEN /\ iteration' = iteration + 1
            /\ pc' = "seek"
            /\ afterPass' = Append(afterPass, result')
       ELSE UNCHANGED <<iteration, pc, afterPass>>
    /\ UNCHANGED <<hashKey, hashOut, config, stream, pinnedMessages, loggedOutliers, err>>

\* a plausible slip: partitionCounts accumulates the increments
AddToPartition_CountsIncrements ==
    /\ Reading
    /\ Parsed
    /\ ~SkipsOutlier
    /\ ~partition.errored
    /\ ~ExceedsMax
    /\ result' = [Counted EXCEPT !.partitionCounts[partitionIndex] =
                                    Add64(@, Sub64(newValue, partition.current))]
    /\ partitionList' = [partitionList EXCEPT ![partitionIndex].current = newValue]
    /\ partitionTrackers' =
         [partitionTrackers EXCEPT ![partitionIndex] =
             Add64(@, Sub64(newValue, partition.current))]
    /\ pos' = pos + 1
    /\ log' = Append(log, Event("added"))
    /\ UNCHANGED <<hashKey, hashOut, config, stream, erroredPartitions, pinnedMessages,
                   loggedOutliers, iteration, pc, err, afterPass>>

\* lines 185-219: counted and added to the partition
AddToPartition ==
    /\ Reading
    /\ Parsed
    /\ ~SkipsOutlier
    /\ ~partition.errored
    /\ ~ExceedsMax
    /\ result' = [Counted EXCEPT !.partitionCounts[partitionIndex] = newValue]
    /\ partitionList' = [partitionList EXCEPT ![partitionIndex].current = newValue]
    /\ partitionTrackers' =
         [partitionTrackers EXCEPT ![partitionIndex] =
             Add64(@, Sub64(newValue, partition.current))]
    /\ pos' = pos + 1
    /\ log' = Append(log, Event("added"))
    /\ UNCHANGED <<hashKey, hashOut, config, stream, erroredPartitions, pinnedMessages,
                   loggedOutliers, iteration, pc, err, afterPass>>

\* a plausible slip: the single-partition message is tested first
Classify_OneFirst(e, p) ==
    IF e = 1 THEN [msg |-> "%d partition exceeded its maximum value", n |-> e]
    ELSE IF e = p THEN [msg |-> "all partitions have exceeded their maximum value", n |-> 0]
    ELSE IF e > 0 THEN [msg |-> "%d partitions exceeded their maximum value", n |-> e]
    ELSE [msg |-> "nil", n |-> 0]

\* lines 237-244: the error returned after the last iteration
Classify(e, p) ==
    IF e = p THEN [msg |-> "all partitions have exceeded their maximum value", n |-> 0]
    ELSE IF e = 1 THEN [msg |-> "%d partition exceeded its maximum value", n |-> e]
    ELSE IF e > 0 THEN [msg |-> "%d partitions exceeded their maximum value", n |-> e]
    ELSE NoError

\* lines 224-244
Finalize ==
    /\ pc = "seek"
    /\ iteration > config.iterations
    /\ err' = Classify(erroredPartitions, config.partitions)
    /\ pc' = "done"
    /\ UNCHANGED <<hashKey, hashOut, config, stream, partitionList, partitionTrackers, result,
                   erroredPartitions, pinnedMessages, loggedOutliers, iteration,
                   pos, log, afterPass>>

\* a plausible slip: the failure is noted and the scan goes on
StreamError_GoesOn ==
    /\ pc \in {"seek", "read"}
    /\ err = NoError
    /\ err' = [msg |-> "stream error", n |-> 0]
    /\ UNCHANGED <<hashKey, hashOut, config, stream, partitionList, partitionTrackers, result,
                   erroredPartitions, pinnedMessages, loggedOutliers, iteration,
                   pos, pc, log, afterPass>>

\* lines 139-169, 224-227: Seek or Read fails; result is returned as it stands
StreamError ==
    /\ pc \in {"seek", "read"}
    /\ err' = [msg |-> "stream error", n |-> 0]
    /\ pc' = "done"
    /\ UNCHANGED <<hashKey, hashOut, config, stream, partitionList, partitionTrackers, result,
                   erroredPartitions, pinnedMessages, loggedOutliers, iteration,
                   pos, log, afterPass>>

Next ==
    \/ BeginIteration
    \/ EndOfFile
    \/ KeyParseError
    \/ CountParseError
    \/ SkipOutlier
    \/ DropErrored
    \/ Overflow
    \/ AddToPartition
    \/ Finalize
    \/ StreamError

Spec == Init /\ [][Next]_vars

\* ------------------------------------------------------------ history readings
\* what the log says about a consumed row
EvParsed(e) == ~KeyParses[e.row].err /\ ~CountParses[e.row].err

EvKey(e) == Uint32(KeyParses[e.row].n)

EvCount(e) == CountParses[e.row].n

EvIndex(e) == Mod32(Hashes[e.row], config.partitions)

Events(outcomes) == {j \in 1..Len(log) : log[j].outcome \in outcomes}

RECURSIVE SumCounts(_)
\* sum, modulo 2^64, of the weights of the log entries at the positions js
SumCounts(js) ==
    IF js = {} THEN I64(0)
    ELSE LET j == CHOOSE x \in js : TRUE
         IN  Add64(EvCount(log[j]), SumCounts(js \ {j}))

Returned == pc = "done"

StreamFault == err.msg = "stream error"

AllErrored == \A i \in Indexes : partitionList[i].errored

\* ------------------------------------------------------------ claims

\* C1: a record whose weight is greater than outlierThreshold never updates a
\* partition: the step that consumes it leaves every partition's current and
\* errored flag and every partitionCounts entry unchanged, whether or not its
\* key is already in the registry.
C1_OutlierNeverUpdates ==
    [][(Reading /\ Parsed /\ Gt64(count, config.outlier))
         => /\ partitionList' = partitionList
            /\ result'.partitionCounts = result.partitionCounts]_vars

\* C2: an errored partition stays errored and keeps its current value for the
\* rest of the run, and the step that sets errored leaves current unchanged.
C2_ErroredIsFinal ==
    [][\A i \in Indexes :
         /\ partitionList[i].errored => partitionList'[i] = partitionList[i]
         /\ partitionList'[i].errored =>
              partitionList'[i].current = partitionList[i].current]_vars

\* C2 witness: a partition overflowed in the first iteration and a record for
\* an errored partition was dropped in a later iteration.
C2_Witness ==
    /\ \E j \in Events({"overflow"}) : log[j].iteration = 1
    /\ \E j \in Events({"dropped"}) : log[j].iteration = 2

\* C3 as stated: every partition that is not errored has current <= capacity,
\* for every configuration.
C3_Original ==
    \A i \in Indexes :
        ~partitionList[i].errored =>
            Le64(partitionList[i].current, partitionList[i].max)

\* C3 amended: every partition that is not errored has current <= capacity,
\* except that with floor > capacity a partition still holds the floor until
\* its first successful update or overflow.
C3_WithinCapacity ==
    \A i \in Indexes :
        ~partitionList[i].errored =>
            \/ Le64(partitionList[i].current, partitionList[i].max)
            \/ /\ Gt64(config.min, config.max)
               /\ partitionList[i].current = config.min

\* C3 witness: a partition was filled exactly to its capacity and is not errored.
C3_Witness ==
    \E i \in Indexes :
        /\ ~partitionList[i].errored
        /\ partitionList[i].current = config.max
        /\ partitionList[i].current # config.min
        /\ \E j \in Events({"added"}) : EvIndex(log[j]) = i

\* C4: when ProcessCSV returns, partitionCounts has partitionCount entries and
\* partitionCounts[i] is partition i's final current, also for partitions that
\* were never updated or are errored.
C4_CountsAreCurrent ==
    Returned =>
        /\ DOMAIN result.partitionCounts = Indexes
        /\ \A i \in Indexes : result.partitionCounts[i] = partitionList[i].current

\* C4 as stated fails on the code: partitionCounts starts at 0 (line 130) and is
\* written only by a successful update (line 218), so it differs from current
\* for a never-updated partition whenever the floor is not 0.

\* the rows of stream[1..n] that parse
ParsedPrefix(n) ==
    {j \in 1..n : ~KeyParses[stream[j]].err /\ ~CountParses[stream[j]].err}

RECURSIVE SumStream(_)
\* sum, modulo 2^64, of the weights of the stream rows at the positions js
SumStream(js) ==
    IF js = {} THEN I64(0)
    ELSE LET j == CHOOSE x \in js : TRUE
         IN  Add64(CountParses[stream[j]].n, SumStream(js \ {j}))

AllExceeded == "all partitions have exceeded their maximum value"

\* TestAllPartitionsErrored: Config{partitions: 3, max: 10} over the defaults
TestConfig ==
    [partitions |-> 3, max |-> I64(10), min |-> I64(0), iterations |-> 1,
     outlier |-> MaxInt64]

\* C5: in a run with iterations = 1 in which every partition overflows, the
\* record whose overflow errors the last active partition is the last one
\* consumed: the totals count exactly the parsed rows up to and including it,
\* and the run returns "all partitions have exceeded their maximum value"
\* (a stream fault at the final Seek apart).  The test's instance gives 3 and 33.
C5_HaltEndsRun ==
    /\ (Returned /\ config.iterations = 1 /\ AllErrored) =>
          /\ pos >= 1
          /\ Len(log) = pos
          /\ log[pos].outcome = "overflow"
          /\ log[pos].row = stream[pos]
          /\ result.totalDocuments = Cardinality(ParsedPrefix(pos))
          /\ result.totalIDs = SumStream(ParsedPrefix(pos))
          /\ ~StreamFault => err.msg = AllExceeded
    /\ (Returned /\ ~StreamFault /\ stream = TestStream /\ config = TestConfig) =>
          /\ result.totalDocuments = 3
          /\ result.totalIDs = I64(33)
          /\ err.msg = AllExceeded

\* C5 witness: the test's run has returned after 3 of its 10 rows.
C5_Witness ==
    /\ Returned
    /\ stream = TestStream
    /\ config = TestConfig
    /\ AllErrored
    /\ pos = 3
    /\ err.msg = AllExceeded

NoticesFor(k) ==
    Cardinality({j \in 1..Len(pinnedMessages) : pinnedMessages[j].documentID = k})

\* the consumed records of key k whose weight is over the threshold
OverThreshold(k) ==
    {j \in 1..Len(log) : /\ EvParsed(log[j])
                         /\ EvKey(log[j]) = k
                         /\ Gt64(EvCount(log[j]), config.outlier)}

SeenKeys == {EvKey(log[j]) : j \in {x \in 1..Len(log) : EvParsed(log[x])}}

NoOverflowInFirstPass == \A j \in Events({"overflow"}) : log[j].iteration # 1

\* the totals a run with iterations = 1 returns are those at the end of pass 1
Doubled ==
    /\ result.totalDocuments = 2 * afterPass[1].totalDocuments
    /\ result.totalIDs = Add64(afterPass[1].totalIDs, afterPass[1].totalIDs)

NoOutliers == \A k \in SeenKeys : OverThreshold(k) = {}

\* C6 as stated: with no overflow in the first pass, a run with iterations = 2
\* ends with twice the totalDocuments and totalIDs of the single-pass run.
\* It is read here on the runs in which no record is over the outlier
\* threshold, so that its failure owes nothing to the outlier handling (C1).
C6_Original ==
    (Returned /\ ~StreamFault /\ config.iterations = 2 /\ NoOverflowInFirstPass
       /\ NoOutliers)
        => Doubled

\* C6 amended: with no overflow in the first pass, and provided the run does
\* not end with every partition errored (the second pass is not cut short by
\* the break of line 212), a run with iterations = 2 ends with twice the
\* totalDocuments and totalIDs of the single-pass run.
C6_DoublesUnlessHalted ==
    /\ (Returned /\ ~StreamFault /\ config.iterations = 1) => afterPass = <<result>>
    /\ (Returned /\ ~StreamFault /\ config.iterations = 2
          /\ NoOverflowInFirstPass /\ ~AllErrored) => Doubled

\* C6 witness: a two-pass run returned, nothing overflowed in pass 1, one of
\* several partitions overflowed in pass 2.
C6_Witness ==
    /\ Returned /\ ~StreamFault /\ config.iterations = 2
    /\ NoOverflowInFirstPass /\ ~AllErrored
    /\ Events({"overflow"}) # {}
    /\ result.totalDocuments = 2 * Len(stream)
    /\ Len(stream) >= 2

\* C7: a key consumed N >= 1 times with weight over the threshold, within and
\* across iterations, has exactly one outlier notice (and a key never over the
\* threshold has none); the notices are exactly the keys of the registry, so
\* the registry persists and never loses a key.
C7_OneNoticePerKey ==
    /\ \A k \in SeenKeys :
          NoticesFor(k) = IF OverThreshold(k) # {} THEN 1 ELSE 0
    /\ {pinnedMessages[j].documentID : j \in 1..Len(pinnedMessages)} = loggedOutliers
    /\ Len(pinnedMessages) = Cardinality(loggedOutliers)

\* C7 witness: a key was consumed over the threshold three times or more, in
\* both iterations.
C7_Witness ==
    \E k \in SeenKeys :
        /\ Cardinality(OverThreshold(k)) >= 3
        /\ \E j \in OverThreshold(k) : log[j].iteration = 2
        /\ NoticesFor(k) = 1

RECURSIVE SumOver(_, _)
\* sum, modulo 2^64, of f[i] over the partitions i in S
SumOver(f, S) ==
    IF S = {} THEN I64(0)
    ELSE LET i == CHOOSE x \in S : TRUE
         IN  Add64(f[i], SumOver(f, S \ {i}))

\* partitions that received at least one successful update
Updated == {EvIndex(log[j]) : j \in Events({"added"})}

\* rows rejected for their key whose weight text does parse
KeyFailedWithWeight == {j \in Events({"keyError"}) : ~CountParses[log[j].row].err}

\* C8 as stated: with iterations = 1, at return, sum(partitionCounts) plus the
\* weights rejected by the capacity check equals totalIDs minus the weights of
\* the outlier-skipped and the parse-failed records.  It is read here on the
\* runs that end without a stream fault, in which every row parses and no
\* record is over the outlier threshold, so that its failure owes nothing to
\* the parsing (C10) or the outlier handling (C1).
C8_Original ==
    (Returned /\ ~StreamFault /\ config.iterations = 1
       /\ Events({"keyError", "countError"}) = {} /\ NoOutliers) =>
        Add64(SumOver(result.partitionCounts, Indexes),
              SumCounts(Events({"overflow"})))
          = Sub64(result.totalIDs,
                  Add64(SumCounts(Events({"outlier"})),
                        SumCounts(KeyFailedWithWeight)))

\* C8 amended: with iterations = 1, at return, (the sum over the partitions
\* that received a successful update of partitionCounts[i] - floor) plus (the
\* weights rejected by the capacity check or dropped because the partition
\* was already errored) equals totalIDs minus (the weights of the records
\* skipped as outliers); parse-failed records are on neither side.  All sums
\* are modulo 2^64.
C8_Balance ==
    (Returned /\ config.iterations = 1) =>
        Add64(SumOver([i \in Indexes |-> Sub64(result.partitionCounts[i], config.min)],
                      Updated),
              SumCounts(Events({"overflow", "dropped"})))
          = Sub64(result.totalIDs, SumCounts(Events({"outlier"})))

\* C8 witness: a single-pass run with a non-zero floor returned after a record
\* was added to a partition and the next one was rejected by its capacity check.
C8_Witness ==
    /\ Returned /\ config.iterations = 1
    /\ config.min # I64(0)
    /\ Events({"added"}) # {}
    /\ Events({"overflow"}) # {}
    /\ result.partitionCounts[EvIndex(log[1])] = Add64(config.min, EvCount(log[1]))

ErroredCount == Cardinality({i \in Indexes : partitionList[i].errored})

\* C9: a run that ends without a stream error is classified by the number E
\* of errored partitions: 0 is success, partitionCount is "all partitions
\* have exceeded their maximum value", 1 is "1 partition exceeded its maximum
\* value", anything else "E partitions exceeded their maximum value"; the
\* Result accumulated by the last iteration is returned with it.
C9_Outcome ==
    (Returned /\ ~StreamFault) =>
        /\ err = IF ErroredCount = 0 THEN NoError
                 ELSE IF ErroredCount = config.partitions
                      THEN [msg |-> AllExceeded, n |-> 0]
                 ELSE IF ErroredCount = 1
                      THEN [msg |-> "%d partition exceeded its maximum value", n |-> 1]
                 ELSE [msg |-> "%d partitions exceeded their maximum value",
                       n |-> ErroredCount]
        /\ DOMAIN result.partitionCounts = Indexes
        /\ Len(afterPass) = config.iterations
        /\ result = afterPass[config.iterations]

\* C9 witness: two of three partitions errored, "2 partitions exceeded ...".
C9_Witness ==
    /\ Returned
    /\ err = [msg |-> "%d partitions exceeded their maximum value", n |-> 2]
    /\ config.partitions = 3
    /\ result.totalDocuments > 0

\* the decimal text of an unsigned 32-bit integer: digits only, value < 2^32
IsUint32Text(t) ==
    /\ t # <<>>
    /\ \A i \in 1..Len(t) : IsDigit(t[i])
    /\ LET m == ParseDigits(t, [mag |-> I64(0), over |-> FALSE])
       IN  ~m.over /\ m.mag[3] = 0 /\ m.mag[4] = 0

\* the decimal text of an int64
IsInt64Text(t) == ~ParseInt(t, 64).err

\* C10: a row whose key is the decimal text of a uint32 and whose weight is
\* the decimal text of an int64 is never rejected as a parse error, and a row
\* whose key text is not a uint32 is rejected.
C10_Uint32KeysParse ==
    \A j \in 1..Len(log) :
        /\ (IsUint32Text(log[j].row.key) /\ IsInt64Text(log[j].row.count))
              => log[j].outcome \notin {"keyError", "countError"}
        /\ ~IsUint32Text(log[j].row.key) => log[j].outcome = "keyError"

\* ------------------------------------------------------------ hash called directly
\* a uint32 given as a number below 2^31
U32(n) == <<n % Base, n \div Base>>

\* int32(x): the uint32 x reinterpreted as a signed 32-bit integer
Int32(x) == IF x[2] >= Half THEN (x[2] - Base) * Base + x[1] ELSE x[2] * Base + x[1]

\* the table of TestHash: input and the value Postgres returns for it
Reference ==
    { <<123456789, 524883300>>,
      <<987654321, -522295545>>,
      <<1, -1905060026>>,
      <<2147483647, -96758253>>,
      <<42, 1509752520>>,
      <<314159265, -489000246>>,
      <<271828182, -562529542>>,
      <<1618033988, -1731020505>>,
      <<272321, 235424784>> }

HashKeys == {U32(n) : n \in 0..MaxHashKey} \cup {U32(r[1]) : r \in Reference}

HashInit ==
    /\ hashKey \in HashKeys
    /\ hashOut = NoHash
    /\ config = TestConfig
    /\ stream = <<>>
    /\ EngineStart

\* result := hash(tc.input)
CallHash ==
    /\ hashOut = NoHash
    /\ hashOut' = hash(hashKey)
    /\ UNCHANGED <<hashKey, config, stream, partitionList, partitionTrackers,
                   result, erroredPartitions, pinnedMessages, loggedOutliers,
                   iteration, pos, pc, err, log, afterPass>>

HashNext == CallHash

SpecHash == HashInit /\ [][HashNext]_vars

\* C11: hash is bit-exact with Postgres hash_bytes_uint32: for each key of the
\* reference table, hash(k) reinterpreted as a signed 32-bit integer is the
\* reference value.
C11_HashMatchesReference ==
    hashOut # NoHash =>
        \A r \in Reference : hashKey = U32(r[1]) => Int32(hashOut) = r[2]

\* C11 witness: hash has returned for the reference key 2^31 - 1, whose value
\* is negative as a signed integer.
C11_Witness ==
    /\ hashKey = U32(2147483647)
    /\ hashOut # NoHash
    /\ Int32(hashOut) < 0

\* the log entries of the records that parsed
ParsedEvents == {j \in 1..Len(log) : EvParsed(log[j])}

\* C12: in every reachable state totalDocuments is the number of successfully
\* parsed records consumed so far over all iterations and totalIDs the sum of
\* their weights (modulo 2^64), whether the record was then skipped as an
\* outlier, dropped at an errored partition, rejected by the capacity check or
\* added; so a run without a global halt ends with totalDocuments =
\* iterations x (number of parseable rows of the stream).
C12_TotalsCountParsed ==
    /\ result.totalDocuments = Cardinality(ParsedEvents)
    /\ result.totalIDs = SumCounts(ParsedEvents)
    /\ ParsedEvents = Events({"outlier", "dropped", "overflow", "added"})
    /\ (Returned /\ ~StreamFault /\ ~AllErrored) =>
          result.totalDocuments
            = config.iterations * Cardinality(ParsedPrefix(Len(stream)))

\* C12 witness: a run without a global halt returned after one record was
\* skipped as an outlier, one added, one rejected and one dropped.
C12_Witness ==
    /\ Returned /\ ~StreamFault /\ ~AllErrored
    /\ \A o \in {"outlier", "dropped", "overflow", "added"} : Events({o}) # {}
    /\ result.totalDocuments = 4

\* C13: once every partition is errored, each later iteration still scans the
\* whole stream from its beginning: every record that parses is counted in
\* totalDocuments and totalIDs, no partition's current or errored flag, no
\* partitionCounts entry and not erroredPartitions changes, and the iteration
\* ends only at the end of the stream (a stream fault apart).
C13_LaterPassesScanAll ==
    [][AllErrored =>
         /\ partitionList' = partitionList
         /\ result'.partitionCounts = result.partitionCounts
         /\ erroredPartitions' = erroredPartitions
         /\ (pc = "seek" /\ pc' = "read") => pos' = 0
         /\ (Reading /\ pc' # "done") =>
               /\ pc' = "read" /\ pos' = pos + 1 /\ iteration' = iteration
               /\ result' = IF Parsed THEN Counted ELSE result
         /\ iteration' # iteration => (pc = "read" /\ pos = Len(stream))]_vars

\* C13 witness: every partition was errored in iteration 1 and iteration 2
\* consumed the whole stream of two parseable rows before the run returned.
C13_Witness ==
    /\ Returned /\ ~StreamFault /\ config.iterations = 2
    /\ Len(stream) = 2
    /\ Len(afterPass) = 2
    /\ \A j \in Events({"overflow"}) : log[j].iteration = 1
    /\ AllErrored
    /\ Cardinality({j \in ParsedEvents : log[j].iteration = 2}) = 2
    /\ result.totalDocuments = afterPass[1].totalDocuments + 2

\* C14: a record whose key or weight does not parse changes nothing in the
\* run state (totals, partitions, partitionCounts, erroredPartitions, the
\* outlier registry and its notices), and the run goes on to the next record
\* of the same iteration.
C14_ParseFailureChangesNothing ==
    [][(Reading /\ ~Parsed /\ pc' # "done") =>
         /\ result' = result
         /\ partitionList' = partitionList
         /\ partitionTrackers' = partitionTrackers
         /\ erroredPartitions' = erroredPartitions
         /\ loggedOutliers' = loggedOutliers
         /\ pinnedMessages' = pinnedMessages
         /\ err' = err
         /\ iteration' = iteration /\ pc' = "read" /\ pos' = pos + 1]_vars

\* C14 witness: a record with an unparseable weight was skipped and the next
\* record of the stream was then counted and added to its partition.
C14_Witness ==
    /\ Len(log) = 2
    /\ log[1].outcome = "countError"
    /\ log[2].outcome = "added"
    /\ result.totalDocuments = 1
    /\ \E i \in Indexes : partitionList[i].current # config.min

\* hash(key) mod partitionCount lies in [0, partitionCount) for the keys of
\* HashKeys and every partition count of the configurations
IndexInRange ==
    \A k \in HashKeys : \A p \in 1..MaxPartitions : Mod32(hash(k), p) \in 0..(p - 1)

\* C15: processing one record modifies at most one partition, the one at
\* index hash(key) mod partitionCount, which lies in [0, partitionCount); the
\* current and errored flag of every other partition and every other
\* partitionCounts entry are unchanged by that record.
C15_OnePartitionPerRecord ==
    [][Reading =>
         /\ IndexInRange
         /\ Parsed => Mod32(Hashes[record], config.partitions) \in Indexes
         /\ \A i \in Indexes :
               (\/ partitionList'[i] # partitionList[i]
                \/ result'.partitionCounts[i] # result.partitionCounts[i])
               => /\ Parsed
                  /\ i = Mod32(Hashes[record], config.partitions)]_vars

\* C15 witness: with three partitions, the first record was added to the
\* partition its hash selects and the two others are as constructed.
C15_Witness ==
    /\ config.partitions = 3
    /\ Len(log) = 1
    /\ log[1].outcome = "added"
    /\ partitionList[EvIndex(log[1])].current # config.min
    /\ EvIndex(log[1]) # Mod32(Uint32(KeyParses[log[1].row].n), 3)
    /\ \A i \in Indexes \ {EvIndex(log[1])} :
          /\ partitionList[i].current = config.min
          /\ ~partitionList[i].errored
          /\ result.partitionCounts[i] = I64(0)

\* lines 117-125: Total of every partition tracker, config.max - config.min
TrackerTotal == Sub64(config.max, config.min)

\* C16: the tracked progress of partition i (the increments handed to its
\* tracker, summed) equals current[i] - floor while the partition is not
\* errored and capacity - floor once it is errored, and so never exceeds the
\* tracker total capacity - floor.  Read here for the configurations with
\* floor <= capacity only, whose tracker total is not negative.
C16_TrackedProgress ==
    Le64(config.min, config.max) =>
        \A i \in Indexes :
            /\ partitionTrackers[i] =
                 IF partitionList[i].errored THEN TrackerTotal
                 ELSE Sub64(partitionList[i].current, config.min)
            /\ Le64(partitionTrackers[i], TrackerTotal)

\* C17: a stream error (a failed Seek, header read or record read) aborts the
\* run at once: the step that meets it changes no run state and returns the
\* Result as accumulated so far with a stream error, which is none of the
\* overflow classifications even when partitions are errored; after the
\* return no record of this or a later iteration is processed.
C17_StreamErrorAborts ==
    [][/\ ~Returned
       /\ StreamFault' =>
            /\ pc' = "done"
            /\ result' = result
            /\ partitionList' = partitionList
            /\ partitionTrackers' = partitionTrackers
            /\ erroredPartitions' = erroredPartitions
            /\ loggedOutliers' = loggedOutliers
            /\ pinnedMessages' = pinnedMessages
            /\ <<iteration', pos', log', afterPass'>> = <<iteration, pos, log, afterPass>>]_vars

\* C17 witness: the stream failed in the first of two iterations, after one
\* partition had overflowed and with a record still unread; the run returned
\* the stream error and the totals of the one record consumed.
C17_Witness ==
    /\ Returned /\ StreamFault
    /\ config.iterations = 2 /\ iteration = 1
    /\ Len(stream) = 2 /\ pos = 1
    /\ ErroredCount = 1
    /\ result.totalDocuments = 1

\* overflow notices (main.go:208) emitted for partition i
OverflowsOf(i) == {j \in Events({"overflow"}) : EvIndex(log[j]) = i}

\* C18: erroredPartitions is the number of partitions whose errored flag is
\* set, hence within 0..partitionCount, and a partition increments it and
\* emits its overflow notice at most once in the whole run: exactly once when
\* it is errored, never otherwise.
C18_ErroredCounter ==
    /\ erroredPartitions = ErroredCount
    /\ erroredPartitions \in 0..config.partitions
    /\ \A i \in Indexes :
          Cardinality(OverflowsOf(i)) = IF partitionList[i].errored THEN 1 ELSE 0

\* C18 witness: two of three partitions overflowed in the first iteration and
\* the second iteration met both again without counting them again.
C18_Witness ==
    /\ config.partitions = 3
    /\ Returned /\ ~StreamFault
    /\ erroredPartitions = 2
    /\ Cardinality(Events({"overflow"})) = 2
    /\ \A j \in Events({"overflow"}) : log[j].iteration = 1
    /\ Cardinality({j \in Events({"dropped"}) : log[j].iteration = 2}) = 2

\* every weight of the stream that parses is >= 0
WeightsNonNegative ==
    \A j \in 1..Len(stream) :
        ~CountParses[stream[j]].err => Le64(I64(0), CountParses[stream[j]].n)

\* C19: for a stream whose weights are all >= 0 and a configuration with
\* floor <= capacity, every partition's current is >= floor in every reachable
\* state and never decreases from one state to the next, current + weight
\* being computed in wrapping signed 64-bit arithmetic.
C19_CurrentNeverDecreases ==
    [][(WeightsNonNegative /\ Le64(config.min, config.max)) =>
         \A i \in Indexes :
            /\ Le64(config.min, partitionList'[i].current)
            /\ Le64(partitionList[i].current, partitionList'[i].current)]_vars

\* C20: partitionCounts[i] is partition i's current when at least one record
\* has been added to partition i, and 0 otherwise, whatever the floor.
C20_CountsOfUpdated ==
    \A i \in Indexes :
        result.partitionCounts[i] =
            IF i \in Updated THEN partitionList[i].current ELSE I64(0)

\* C20 witness: with a floor of 1, a run returned with one partition updated,
\* whose entry is its current, and another never updated, whose entry is 0
\* while its current is the floor.
C20_Witness ==
    /\ Returned /\ ~StreamFault
    /\ config.min = I64(1)
    /\ \E i \in Updated :
          /\ result.partitionCounts[i] = partitionList[i].current
          /\ Gt64(partitionList[i].current, config.min)
    /\ \E i \in Indexes \ Updated :
          /\ result.partitionCounts[i] = I64(0)
          /\ partitionList[i].current = config.min

====
